---- MODULE Spec2Model ----
(***************************************************************************)
(* Model of src/main.py: Row (a financial line item with derived           *)
(* difference and ratio), Table (the ordered rows plus the name -> row     *)
(* position dictionary), the ADDITIONAL_ROWS formula registry, and the     *)
(* recursive narrative writer generate().                                  *)
(*                                                                         *)
(* Numbers are exact rationals (the source uses floats; rounding is not    *)
(* modelled).  A Python value is a tagged record: a number, a text (a      *)
(* sequence of one-character strings) or None.  An operation that can      *)
(* raise returns a record with the exception's class name in "exc"         *)
(* ("" when it returned normally).                                         *)
(***************************************************************************)
EXTENDS Integers, Sequences, FiniteSets, TLC

VARIABLES
    DEFAULT_COLUMN_ROW_INDEX, \* the module-level dict, lines 14-30
    table,                    \* the Table object of the current analysis
    lookup,                   \* outcome of the last direct get_row_by_name call
    report,                   \* what the last generate() wrote, and how it ended
    made                      \* the last Row constructed directly, with its inputs

vars == <<DEFAULT_COLUMN_ROW_INDEX, table, lookup, report, made>>

----------------------------------------------------------------------------
(* Bounds *)

MaxRows == 2        \* add_row is offered while the table has fewer rows
MaxRuns == 1        \* generate_additional_rows calls offered per Table
MaxFileLen == 16    \* longest statement file read by analyse_file
MaxInt == 3         \* directly constructed Rows take numbers in -MaxInt..MaxInt
MaxTextLen == 2     \* and texts of at most this many characters

----------------------------------------------------------------------------
(* Python values *)

Num(n, d) == [k |-> "num", n |-> n, d |-> d, s |-> <<>>]
Str(s) == [k |-> "str", n |-> 0, d |-> 1, s |-> s]
None == [k |-> "none", n |-> 0, d |-> 1, s |-> <<>>]
Int2(n) == Num(n, 1)

IsNum(v) == v.k = "num"

Abs(x) == IF x < 0 THEN -x ELSE x

RECURSIVE GCD(_, _)
GCD(a, b) == IF b = 0 THEN a ELSE GCD(b, a % b)

\* a rational in lowest terms with a positive denominator
Rat(n, d) ==
    LET g == GCD(Abs(n), Abs(d))
        sg == IF d < 0 THEN -1 ELSE 1
    IN Num(sg * (n \div g), sg * (d \div g))

\* sums and products cancel common factors before multiplying
RAdd(a, b) ==
    LET g == GCD(a.d, b.d)
    IN Rat(a.n * (b.d \div g) + b.n * (a.d \div g), (a.d \div g) * b.d)

RSub(a, b) == RAdd(a, Num(-b.n, b.d))

RMul(a, b) ==
    LET g1 == GCD(Abs(a.n), b.d)
        g2 == GCD(Abs(b.n), a.d)
    IN Rat((a.n \div g1) * (b.n \div g2), (a.d \div g2) * (b.d \div g1))

RQuot(a, b) == RMul(a, IF b.n < 0 THEN Num(-b.d, -b.n) ELSE Num(b.d, b.n))

RIsZero(a) == a.n = 0
RNeg(a) == a.n < 0
RGreater(a, b) == RSub(b, a).n < 0

\* F(x) with x evaluated once, before F's body
Bind(x, F(_)) == CHOOSE r \in {F(v) : v \in {x}} : TRUE

Ok(v) == [exc |-> "", v |-> v]
Raise(e) == [exc |-> e, v |-> None]

\* Python's binary operators on values
PySub(a, b) ==
    IF IsNum(a) /\ IsNum(b) THEN Ok(RSub(a, b)) ELSE Raise("TypeError")

PyMul(a, b) ==
    IF IsNum(a) /\ IsNum(b) THEN Ok(RMul(a, b)) ELSE Raise("TypeError")

PyAdd(a, b) ==
    IF IsNum(a) /\ IsNum(b) THEN Ok(RAdd(a, b))
    ELSE IF a.k = "str" /\ b.k = "str" THEN Ok(Str(a.s \o b.s))
    ELSE Raise("TypeError")

PyDiv(a, b) ==
    IF IsNum(a) /\ IsNum(b)
    THEN IF RIsZero(b) THEN Raise("ZeroDivisionError") ELSE Ok(RQuot(a, b))
    ELSE Raise("TypeError")

----------------------------------------------------------------------------
(* float(): texts over the alphabet {"-", "0".."9", "a"} *)

Digits == {"0", "1", "2", "3", "4", "5", "6", "7", "8", "9"}

DigitVal(c) ==
    CASE c = "0" -> 0 [] c = "1" -> 1 [] c = "2" -> 2 [] c = "3" -> 3
      [] c = "4" -> 4 [] c = "5" -> 5 [] c = "6" -> 6 [] c = "7" -> 7
      [] c = "8" -> 8 [] c = "9" -> 9

RECURSIVE DecVal(_)
DecVal(s) ==
    IF Len(s) = 0 THEN 0
    ELSE 10 * DecVal(SubSeq(s, 1, Len(s) - 1)) + DigitVal(s[Len(s)])

float(v) ==
    IF v.k = "num" THEN Ok(v)
    ELSE IF v.k = "none" THEN Raise("TypeError")
    ELSE LET neg == Len(v.s) > 0 /\ v.s[1] = "-"
             body == IF neg THEN Tail(v.s) ELSE v.s
         IN IF Len(body) > 0 /\ \A i \in 1..Len(body) : body[i] \in Digits
            THEN Ok(Int2(IF neg THEN -DecVal(body) ELSE DecVal(body)))
            ELSE Raise("ValueError")

----------------------------------------------------------------------------
(* Row *)

\* calculate_ratio with the sign test widened to zero products
calculate_ratio_NonPositive(difference, base, current_year, last_year) ==
    LET p == PyMul(current_year, last_year)
    IN IF p.exc # "" THEN p
       ELSE IF RNeg(p.v) \/ RIsZero(p.v) THEN Ok(None)
       ELSE PyDiv(difference, base)

calculate_ratio(difference, base, current_year, last_year) ==
    LET p == PyMul(current_year, last_year)
    IN IF p.exc # "" THEN p
       ELSE IF RNeg(p.v) THEN Ok(None)
       ELSE PyDiv(difference, base)

\* an except clause that names ValueError only
PostInitExcept_ValueErrorOnly(e) == e = "ValueError"

\* "except Exception" of __post_init__: every exception class that can occur
\* in the try block derives from Exception
PostInitExcept(e) ==
    e \in {"ValueError", "TypeError", "ZeroDivisionError"}

\* the dataclass constructor followed by __post_init__.  "caught" is the
\* class of the exception the except clause swallowed and "raised" the class
\* of one it let through to the caller ("" if none).
Row(name, cy, ly) ==
    LET c == float(cy)
        l == IF c.exc = "" THEN float(ly) ELSE Raise(c.exc)
        cur == IF c.exc = "" THEN c.v ELSE cy
        last == IF l.exc = "" THEN l.v ELSE ly
        d == IF l.exc = "" THEN PySub(cur, last) ELSE Raise(l.exc)
        r == IF d.exc = "" THEN calculate_ratio(d.v, last, cur, last)
             ELSE Raise(d.exc)
    IN [name |-> name, current_year |-> cur, last_year |-> last,
        difference |-> IF r.exc = "" THEN d.v ELSE None,
        ratio |-> IF r.exc = "" THEN r.v ELSE None,
        caught |-> IF r.exc # "" /\ PostInitExcept(r.exc) THEN r.exc ELSE "",
        raised |-> IF r.exc # "" /\ ~PostInitExcept(r.exc) THEN r.exc ELSE ""]

----------------------------------------------------------------------------
(* Static configuration *)

NoneIdx == -1   \* a None position in the index

Primary == {"current_asset", "current_liability", "ncib_debt", "equity",
            "ebit", "interest_costs", "debt_service_of_principal",
            "revenue", "profit", "assets", "liabilities", "cash_flow"}

DerivedKeys == {"current_ratio", "dte_ratio", "dsc_ratio"}

\* the literal the module-level dict is created from
DefaultIndexLiteral ==
    [c \in Primary \cup DerivedKeys |->
        CASE c = "current_asset" -> 7
          [] c = "current_liability" -> 10
          [] c = "ncib_debt" -> 9
          [] c = "equity" -> 13
          [] c = "ebit" -> 2
          [] c = "interest_costs" -> 3
          [] c = "debt_service_of_principal" -> 12
          [] c = "revenue" -> 1
          [] c = "profit" -> 4
          [] c = "assets" -> 8
          [] c = "liabilities" -> 11
          [] c = "cash_flow" -> 15
          [] OTHER -> NoneIdx]

\* the registry, in dict order; "key" is the index key lines 167-172 write
ADDITIONAL_ROWS ==
    << [name |-> "Current Ratio", fn |-> "quotient",
        inputs |-> <<"current_asset", "current_liability">>,
        key |-> "current_ratio"],
       [name |-> "Debt to Equity Ratio", fn |-> "quotient",
        inputs |-> <<"ncib_debt", "equity">>,
        key |-> "dte_ratio"],
       [name |-> "Debt Service Coverage Ratio", fn |-> "coverage",
        inputs |-> <<"ebit", "interest_costs", "debt_service_of_principal">>,
        key |-> "dsc_ratio"] >>

\* the three lambdas of ADDITIONAL_ROWS applied to a list of arguments
lambda_func(fn, args) ==
    IF fn = "quotient" THEN PyDiv(args[1], args[2])
    ELSE LET s == PyAdd(args[2], args[3])
         IN IF s.exc # "" THEN s ELSE PyDiv(args[1], s.v)

----------------------------------------------------------------------------
(* Table *)

NoRow == [name |-> "", current_year |-> None, last_year |-> None,
          difference |-> None, ratio |-> None, caught |-> "", raised |-> ""]

\* rows[row_name_index_dict[row_name]]; positions are 0-based
get_row_by_name(rows, index, row_name) ==
    IF row_name \notin DOMAIN index THEN [exc |-> "KeyError", row |-> NoRow]
    ELSE IF index[row_name] = NoneIdx THEN [exc |-> "TypeError", row |-> NoRow]
    ELSE IF index[row_name] >= Len(rows) THEN [exc |-> "IndexError", row |-> NoRow]
    ELSE [exc |-> "", row |-> rows[index[row_name] + 1]]

\* the first exception of looking up column_names in order, "" if none
RECURSIVE FirstLookupExc(_, _, _, _)
FirstLookupExc(rows, index, column_names, i) ==
    IF i > Len(column_names) THEN ""
    ELSE LET r == get_row_by_name(rows, index, column_names[i])
         IN IF r.exc # "" THEN r.exc
            ELSE FirstLookupExc(rows, index, column_names, i + 1)

\* get_values_from_lambda_tuple reading current_year for both periods
get_values_from_lambda_tuple_SamePeriod(rows, index, fn, column_names) ==
    LET e == FirstLookupExc(rows, index, column_names, 1)
        cur == lambda_func(fn, [i \in 1..Len(column_names) |->
                   get_row_by_name(rows, index, column_names[i]).row.current_year])
    IN IF e # "" THEN [exc |-> e, cur |-> None, last |-> None]
       ELSE IF cur.exc # "" THEN [exc |-> cur.exc, cur |-> None, last |-> None]
       ELSE [exc |-> "", cur |-> cur.v, last |-> cur.v]

get_values_from_lambda_tuple(rows, index, fn, column_names) ==
    LET e == FirstLookupExc(rows, index, column_names, 1)
        cur == lambda_func(fn, [i \in 1..Len(column_names) |->
                   get_row_by_name(rows, index, column_names[i]).row.current_year])
        last == lambda_func(fn, [i \in 1..Len(column_names) |->
                   get_row_by_name(rows, index, column_names[i]).row.last_year])
    IN IF e # "" THEN [exc |-> e, cur |-> None, last |-> None]
       ELSE IF cur.exc # "" THEN [exc |-> cur.exc, cur |-> None, last |-> None]
       ELSE IF last.exc # "" THEN [exc |-> last.exc, cur |-> None, last |-> None]
       ELSE [exc |-> "", cur |-> cur.v, last |-> last.v]

\* the Row one iteration of generate_additional_rows appends (lines 156-164)
AdditionalRow(rows, index, entry) ==
    Bind(get_values_from_lambda_tuple(rows, index, entry.fn, entry.inputs),
         LAMBDA v : IF v.exc = "" THEN Row(entry.name, v.cur, v.last)
                    ELSE Row(entry.name, Str(<<>>), Str(<<>>)))

\* an iteration that gives up on every entry after the first failure
AdditionalRowStep_Poisoned(g, entry, aliased, custom) ==
    Bind(IF aliased THEN g.dflt ELSE custom, LAMBDA index :
        LET poisoned == \E k \in DOMAIN g.errors : g.errors[k] # ""
            e == get_values_from_lambda_tuple(g.rows, index, entry.fn, entry.inputs).exc
        IN [rows |-> Append(g.rows,
                       IF poisoned THEN Row(entry.name, Str(<<>>), Str(<<>>))
                       ELSE AdditionalRow(g.rows, index, entry)),
            dflt |-> [g.dflt EXCEPT ![entry.key] = Len(g.rows)],
            errors |-> Append(g.errors, IF poisoned /\ e = "" THEN "TypeError" ELSE e)])

\* one iteration of the loop, lines 155-172, on the state g of the loop: the
\* rows, the module-level dict and the exceptions printed so far.  "aliased"
\* says that the Table's row_name_index_dict is the module-level dict itself.
AdditionalRowStep(g, entry, aliased, custom) ==
    Bind(IF aliased THEN g.dflt ELSE custom, LAMBDA index :
        [rows |-> Append(g.rows, AdditionalRow(g.rows, index, entry)),
         dflt |-> [g.dflt EXCEPT ![entry.key] = Len(g.rows)],
         errors |-> Append(g.errors,
             get_values_from_lambda_tuple(g.rows, index, entry.fn, entry.inputs).exc)])

\* the loop of generate_additional_rows from entry i on
RECURSIVE generate_additional_rows(_, _, _, _)
generate_additional_rows(i, g, aliased, custom) ==
    IF i > Len(ADDITIONAL_ROWS) THEN g
    ELSE Bind(AdditionalRowStep(g, ADDITIONAL_ROWS[i], aliased, custom),
              LAMBDA g2 : generate_additional_rows(i + 1, g2, aliased, custom))

----------------------------------------------------------------------------
(* Narrative *)

CURRENCY == "$"
UNIT == "m"

\* a section is a leaf (column names a concept) or a branch (sub is a dict)
Leaf(label, column) == [label |-> label, column |-> column, sub |-> <<>>]
Branch(label, sub) == [label |-> label, column |-> "", sub |-> sub]

TXT_SECTION_NAME_TO_COLUMN_NAME ==
    << Leaf("Revenue", "revenue"),
       Leaf("Profit", "profit"),
       Branch("Assets, Liabilities and Equity",
              << Leaf("Assets", "assets"),
                 Leaf("Liabilities", "liabilities"),
                 Leaf("Equity", "equity") >>),
       Leaf("Current ratio", "current_ratio"),
       Branch("Debt-to-equity and debt service coverage",
              << Leaf("Debt-to-equity ratio", "dte_ratio"),
                 Leaf("Debt service coverage ratio", "dsc_ratio") >>),
       Leaf("Cash flows", "cash_flow") >>

SECTION_WITH_UNIT ==
    {"Revenue", "Profit", "Assets, Liabilities and Equity", "Cash flows"}

Letters == <<"a", "b", "c", "d", "e", "f", "g", "h">>

\* n/d rounded to the nearest integer, ties to even (d > 0)
RoundHalfEven(n, d) ==
    LET q == n \div d
        r == n % d
    IN IF 2 * r < d THEN q
       ELSE IF 2 * r > d THEN q + 1
       ELSE IF q % 2 = 0 THEN q ELSE q + 1

\* a formatted number is the style of its text and the count of hundredths
\* shown; the empty string has style ""
EmptyText == [style |-> "", h |-> 0]

Truthy(x) == (x.k = "num" /\ ~RIsZero(x)) \/ (x.k = "str" /\ Len(x.s) > 0)

\* FIELD_FORMATTING_FUNCTIONS[field](x), for a number or None
FIELD_FORMATTING_FUNCTIONS(fld, x) ==
    IF ~Truthy(x) THEN EmptyText
    ELSE IF fld = "ratio" THEN [style |-> "percent", h |-> RoundHalfEven(x.n * 10000, x.d)]
    ELSE IF fld = "difference" THEN [style |-> "fixed", h |-> RoundHalfEven(x.n * 100, x.d)]
    ELSE [style |-> "grouped", h |-> RoundHalfEven(x.n * 100, x.d)]

Line(kind, section) ==
    [kind |-> kind, section |-> section, prefix |-> "", direction |-> "",
     currency |-> "", unit |-> "", difference |-> EmptyText, ratio |-> EmptyText,
     last_year |-> EmptyText, current_year |-> EmptyText]

\* a threshold test that also flags a ratio of exactly 1
NeedsExplanation_AtLeastOne(ratio) == ~RGreater(Int2(1), ratio)

\* ratio > 1, line 203, for a numeric ratio
NeedsExplanation(ratio) == RGreater(ratio, Int2(1))

\* the body of the isinstance(column_name, str) branch, lines 191-204
WriteLeaf(out, rows, index, section, need_unit) ==
    Bind(get_row_by_name(rows, index, section.column), LAMBDA r :
    LET para == [Line("paragraph", section.label) EXCEPT
                    !.direction = IF ~RNeg(r.row.difference) THEN "an increase"
                                  ELSE "a decrease",
                    !.currency = IF need_unit THEN CURRENCY ELSE "",
                    !.unit = IF need_unit THEN UNIT ELSE "",
                    !.difference = FIELD_FORMATTING_FUNCTIONS("difference", r.row.difference),
                    !.ratio = FIELD_FORMATTING_FUNCTIONS("ratio", r.row.ratio),
                    !.last_year = FIELD_FORMATTING_FUNCTIONS("last_year", r.row.last_year),
                    !.current_year = FIELD_FORMATTING_FUNCTIONS("current_year", r.row.current_year)]
    IN IF r.exc # "" THEN [out |-> out, exc |-> r.exc]
       ELSE IF ~IsNum(r.row.difference) THEN [out |-> out, exc |-> "TypeError"]
       ELSE IF ~IsNum(r.row.ratio)
            THEN [out |-> Append(out, para), exc |-> "TypeError"]
       ELSE IF NeedsExplanation(r.row.ratio)
            THEN [out |-> Append(Append(out, para), Line("flag", section.label)),
                  exc |-> ""]
       ELSE [out |-> Append(out, para), exc |-> ""])

\* generate() over structure_dict from its i-th item on, appending to out
RECURSIVE generate(_, _, _, _, _, _, _)
generate(out, rows, index, structure_dict, i, inner, is_unit) ==
    IF i > Len(structure_dict) THEN [out |-> out, exc |-> ""]
    ELSE LET section == structure_dict[i]
             header == [Line("header", section.label) EXCEPT
                           !.prefix = IF inner THEN "" ELSE Letters[i]]
             need_unit == is_unit \/ section.label \in SECTION_WITH_UNIT
         IN Bind(IF section.column # ""
                 THEN WriteLeaf(Append(out, header), rows, index, section, need_unit)
                 ELSE generate(Append(out, header), rows, index, section.sub,
                               1, TRUE, need_unit),
                 LAMBDA done :
                    IF done.exc # "" THEN done
                    ELSE generate(done.out, rows, index, structure_dict, i + 1,
                                  inner, is_unit))

----------------------------------------------------------------------------
(* Inputs *)

EmptyDict == [c \in {} |-> 0]

\* a caller-supplied index for a two-row statement
Compact ==
    [c \in Primary |->
        IF c \in {"current_asset", "ncib_debt", "ebit", "debt_service_of_principal",
                  "revenue", "assets", "cash_flow"}
        THEN 0 ELSE 1]

\* the same with the positions the derived rows of such a statement take
CompactWithDerived ==
    [c \in Primary \cup DerivedKeys |->
        CASE c = "current_ratio" -> 2
          [] c = "dte_ratio" -> 3
          [] c = "dsc_ratio" -> 4
          [] OTHER -> Compact[c]]

\* the row_name_index_dict arguments offered to Table(): None is EmptyDict
IndexArgs ==
    {EmptyDict, Compact, CompactWithDerived,
     [c \in Primary \ {"equity"} |-> Compact[c]]}

T(s) == Str(s)

\* the (current_year, last_year) fields of the rows offered to add_row
RawPairs ==
    { <<T(<<"5">>), T(<<"2">>)>>,        \* ratio 1.5
      <<Int2(4), Int2(2)>>,              \* ratio exactly 1
      <<T(<<"-", "1">>), T(<<"2">>)>>,   \* sign flip
      <<T(<<"2">>), T(<<"0">>)>>,        \* zero base
      <<T(<<"3">>), T(<<"a">>)>> }       \* last_year does not parse

Alphabet == {"-", "0", "2", "a"}

RECURSIVE Texts(_)
Texts(n) ==
    IF n = 0 THEN {<<>>}
    ELSE Texts(n - 1) \cup
         {Append(s, c) : s \in {t \in Texts(n - 1) : Len(t) = n - 1}, c \in Alphabet}

\* the field values offered to a directly constructed Row
RowInputs ==
    {Int2(n) : n \in -MaxInt..MaxInt} \cup {Str(s) : s \in Texts(MaxTextLen)}
    \cup {None}

DigitChars == <<"0", "1", "2", "3", "4", "5", "6", "7", "8", "9">>

RECURSIVE ToText(_)
ToText(n) ==
    IF n < 10 THEN <<DigitChars[n + 1]>>
    ELSE Append(ToText(n \div 10), DigitChars[(n % 10) + 1])

\* record i (0-based) of the sample statement: laid out as the default index
\* expects, every record numeric
SampleRecord(i) ==
    LET named == {c \in Primary : DefaultIndexLiteral[c] = i}
    IN [name |-> IF named = {} THEN "other" ELSE CHOOSE c \in named : TRUE,
        current_year |-> IF i = 7 THEN T(ToText(500))
                         ELSE IF i = 10 THEN T(ToText(250))
                         ELSE T(ToText((i + 2) * 10)),
        last_year |-> IF i = 7 THEN T(ToText(400))
                      ELSE IF i = 10 THEN T(ToText(200))
                      ELSE T(ToText((i + 1) * 10))]

\* the texts a statement file may hold in place of a sample record's values
FilePairs ==
    {pr \in RawPairs : pr[1].k = "str" /\ pr[2].k = "str"}
    \cup {<<T(<<>>), T(<<>>)>>}

\* the first n sample records, record p (if p < n) holding pr instead
StatementFile(n, p, pr) ==
    [i \in 1..n |->
        IF i - 1 = p
        THEN [SampleRecord(p) EXCEPT !.current_year = pr[1], !.last_year = pr[2]]
        ELSE SampleRecord(i - 1)]

----------------------------------------------------------------------------
(* State *)

NoTable ==
    [exists |-> FALSE, script |-> FALSE, rows |-> <<>>, aliased |-> TRUE,
     custom |-> EmptyDict, runs |-> 0, base |-> 0, errors |-> <<>>]

NoLookup == [called |-> FALSE, name |-> "", exc |-> "", row |-> NoRow]
NoReport == [called |-> FALSE, out |-> <<>>, exc |-> ""]
NoMade == [called |-> FALSE, current_year |-> None, last_year |-> None,
           row |-> NoRow]

\* the dict a Table's row_name_index_dict refers to
IndexOf(t, dflt) == IF t.aliased THEN dflt ELSE t.custom

Init ==
    /\ DEFAULT_COLUMN_ROW_INDEX = DefaultIndexLiteral
    /\ table = NoTable
    /\ lookup = NoLookup
    /\ report = NoReport
    /\ made = NoMade

\* Table.__init__: a falsy row_name_index_dict leaves the Table holding the
\* module-level dict itself
TableInit(row_name_index_dict) ==
    [exists |-> TRUE, script |-> FALSE, rows |-> <<>>,
     aliased |-> (DOMAIN row_name_index_dict = {}),
     custom |-> row_name_index_dict,
     runs |-> 0, base |-> 0, errors |-> <<>>]

\* table = Table(row_name_index_dict), by a caller that uses the module as a
\* library: a new analysis starts, and the results of calls on the previous
\* Table are dropped with it.  (Run as a script, the process ends with the
\* Table of analyse_file.)
NewTable(row_name_index_dict) ==
    /\ ~table.script
    /\ table' = TableInit(row_name_index_dict)
    /\ lookup' = NoLookup
    /\ report' = NoReport
    /\ UNCHANGED <<DEFAULT_COLUMN_ROW_INDEX, made>>

\* table.add_row(Row(name, cy, ly))
AddRow(name, cy, ly) ==
    /\ table.exists
    /\ Len(table.rows) < MaxRows
    /\ table' = [table EXCEPT !.rows = Append(@, Row(name, cy, ly))]
    /\ lookup' = NoLookup
    /\ report' = NoReport
    /\ UNCHANGED <<DEFAULT_COLUMN_ROW_INDEX, made>>

\* the Table and the module-level dict after table.generate_additional_rows()
AfterGenerateAdditionalRows(t, dflt) ==
    Bind(generate_additional_rows(1, [rows |-> t.rows, dflt |-> dflt, errors |-> <<>>],
                                  t.aliased, t.custom), LAMBDA g :
       [table |-> [t EXCEPT !.rows = g.rows, !.runs = @ + 1,
                            !.base = Len(t.rows), !.errors = g.errors],
        dflt |-> g.dflt])

GenerateAdditionalRows ==
    /\ table.exists
    /\ table.runs < MaxRuns
    /\ \E a \in {AfterGenerateAdditionalRows(table, DEFAULT_COLUMN_ROW_INDEX)} :
          /\ table' = a.table
          /\ DEFAULT_COLUMN_ROW_INDEX' = a.dflt
    /\ lookup' = NoLookup
    /\ report' = NoReport
    /\ UNCHANGED made

LookupNames == {"revenue", "equity", "current_ratio", "dsc_ratio", "goodwill"}

\* table.get_row_by_name(row_name), called directly
GetRowByName(row_name) ==
    /\ table.exists
    /\ \E r \in {get_row_by_name(table.rows,
                    IndexOf(table, DEFAULT_COLUMN_ROW_INDEX), row_name)} :
          lookup' = [called |-> TRUE, name |-> row_name, exc |-> r.exc,
                     row |-> r.row]
    /\ UNCHANGED <<DEFAULT_COLUMN_ROW_INDEX, table, report, made>>

Narrative(t, dflt) ==
    Bind(generate(<<>>, t.rows, IndexOf(t, dflt),
                  TXT_SECTION_NAME_TO_COLUMN_NAME, 1, FALSE, FALSE),
         LAMBDA g : [called |-> TRUE, out |-> g.out, exc |-> g.exc])

\* generate(file, table)
Generate ==
    /\ table.exists
    /\ report' = Narrative(table, DEFAULT_COLUMN_ROW_INDEX)
    /\ UNCHANGED <<DEFAULT_COLUMN_ROW_INDEX, table, lookup, made>>

\* the reader loop of analyse_file, lines 213-215
ReadRows(t, file) ==
    [t EXCEPT !.rows = [i \in 1..Len(file) |->
        Row(file[i].name, file[i].current_year, file[i].last_year)]]

\* analyse_file on a statement file, as the module runs it once when it is
\* loaded (line 242), before any other Table exists.  With no record, r is
\* unbound at line 225 and the narrative is never written.
AnalyseFile(file) ==
    /\ ~table.exists
    /\ \E a \in {AfterGenerateAdditionalRows(ReadRows(TableInit(EmptyDict), file),
                                                DEFAULT_COLUMN_ROW_INDEX)} :
          /\ table' = [a.table EXCEPT !.script = TRUE]
          /\ DEFAULT_COLUMN_ROW_INDEX' = a.dflt
          /\ report' = IF Len(file) = 0
                       THEN [called |-> FALSE, out |-> <<>>, exc |-> "UnboundLocalError"]
                       ELSE Narrative(a.table, a.dflt)
    /\ lookup' = NoLookup
    /\ UNCHANGED made

\* Row(name, cy, ly), constructed on its own
ConstructRow(name) ==
    /\ ~made.called
    /\ made' = [made EXCEPT !.called = TRUE,
                            !.row = Row(name, made.current_year, made.last_year)]
    /\ UNCHANGED <<DEFAULT_COLUMN_ROW_INDEX, table, lookup, report>>

Next ==
    \/ \E d \in IndexArgs : NewTable(d)
    \/ \E pr \in RawPairs : AddRow("item", pr[1], pr[2])
    \/ GenerateAdditionalRows
    \/ \E c \in LookupNames : GetRowByName(c)
    \/ Generate
    \/ \E n \in 0..MaxFileLen, pr \in FilePairs :
          \E p \in 0..n : \E file \in {StatementFile(n, p, pr)} : AnalyseFile(file)

Spec == Init /\ [][Next]_vars

\* Row on its own: the two field values are drawn from RowInputs
InitRow ==
    /\ DEFAULT_COLUMN_ROW_INDEX = DefaultIndexLiteral
    /\ table = NoTable
    /\ lookup = NoLookup
    /\ report = NoReport
    /\ \E cy \in RowInputs, ly \in RowInputs :
          made = [NoMade EXCEPT !.current_year = cy, !.last_year = ly]

NextRow == ConstructRow("item")

SpecRow == InitRow /\ [][NextRow]_vars

----------------------------------------------------------------------------
(* Properties of Row, checked under SpecRow *)

Parses(v) == float(v).exc = ""

BothParse == Parses(made.current_year) /\ Parses(made.last_year)

CurrentOf(m) == float(m.current_year).v
LastOf(m) == float(m.last_year).v

SignFlip(m) == RNeg(RMul(CurrentOf(m), LastOf(m)))

\* C3: constructing a Row from any two field values, numeric or text, raises
\* nothing to the caller, and when either value does not parse as a number
\* the Row exists with difference and ratio both absent.
C3_RowNeverRaises ==
    made.called =>
        /\ made.row.raised = ""
        /\ made.row.name = "item"
        /\ ~BothParse => made.row.difference = None /\ made.row.ratio = None

\* a Row whose current_year parsed and whose last_year did not
C3_Witness ==
    /\ made.called
    /\ Parses(made.current_year)
    /\ ~Parses(made.last_year)
    /\ made.row.current_year = Int2(2)
    /\ made.row.caught = "ValueError"
    /\ made.row.difference = None

\* C4: whenever both field values parse as numbers, difference is present
\* and equals current_year - last_year.
C4_DifferencePresent ==
    made.called /\ BothParse =>
        made.row.difference = RSub(CurrentOf(made), LastOf(made))

\* C5: for numeric field values, ratio is absent when current_year *
\* last_year < 0 and otherwise equals (current_year - last_year) / last_year;
\* a zero last_year is a ZeroDivisionError the constructor contains.
C5_RatioRule ==
    made.called /\ BothParse =>
        /\ SignFlip(made) => made.row.ratio = None /\ made.row.caught = ""
        /\ ~SignFlip(made) /\ ~RIsZero(LastOf(made)) =>
              /\ made.row.ratio =
                    RQuot(RSub(CurrentOf(made), LastOf(made)), LastOf(made))
              /\ made.row.ratio = RQuot(made.row.difference, LastOf(made))
        /\ RIsZero(LastOf(made)) =>
              /\ made.row.raised = ""
              /\ made.row.caught = "ZeroDivisionError"
              /\ made.row.ratio = None

\* a sign flip: text "-2" then the number 3
C5_Witness ==
    /\ made.called
    /\ made.current_year = Str(<<"-", "2">>)
    /\ made.last_year = Int2(3)
    /\ made.row.difference = Int2(-5)
    /\ made.row.ratio = None

----------------------------------------------------------------------------
(* Properties of Table and generate, checked under Spec *)

Idx == IndexOf(table, DEFAULT_COLUMN_ROW_INDEX)

\* generate_additional_rows has run on the current Table
Ran == table.exists /\ table.runs > 0

Entries == 1..Len(ADDITIONAL_ROWS)

\* the rows the Table held when generate_additional_rows was called, and the
\* Row it appended for registry entry i
BaseRows == SubSeq(table.rows, 1, table.base)
DerivedRow(i) == table.rows[table.base + i]

\* the rows entry i could look up: the base rows and the earlier derived rows
RowsBefore(i) == SubSeq(table.rows, 1, table.base + i - 1)

Failed(i) == table.errors[i] # ""

IsPlaceholder(row) == row.difference = None /\ row.ratio = None

\* C1: after generate_additional_rows, on a Table with the default or a
\* caller-supplied index, each derived-metric key resolves through the
\* Table's own row_name_index_dict to the Row appended for it, whose name
\* is the registry entry's name.
C1_DerivedResolvable ==
    Ran =>
        \A i \in Entries :
            LET r == get_row_by_name(table.rows, Idx, ADDITIONAL_ROWS[i].key)
            IN /\ r.exc = ""
               /\ r.row.name = ADDITIONAL_ROWS[i].name
               /\ r.row = DerivedRow(i)

\* one Row per registry entry, in registry order, after the existing rows;
\* a failed entry's Row is a placeholder
OnePerEntry ==
    /\ Len(table.rows) = table.base + Len(ADDITIONAL_ROWS)
    /\ Len(table.errors) = Len(ADDITIONAL_ROWS)
    /\ \A i \in Entries :
          /\ DerivedRow(i).name = ADDITIONAL_ROWS[i].name
          /\ Failed(i) =>
                /\ IsPlaceholder(DerivedRow(i))
                /\ DerivedRow(i).current_year = Str(<<>>)
                /\ DerivedRow(i).last_year = Str(<<>>)

\* the rows entry i could look up, had no earlier entry failed: the Row of
\* every failed earlier entry replaced by a numeric one
Healed(i) ==
    [k \in 1..(table.base + i - 1) |->
        IF k > table.base /\ Failed(k - table.base)
        THEN Row(table.rows[k].name, Int2(1), Int2(1))
        ELSE table.rows[k]]

\* entry i has an input whose position is that of an earlier derived Row
ReadsDerived(i) ==
    \E k \in 1..Len(ADDITIONAL_ROWS[i].inputs) :
        LET c == ADDITIONAL_ROWS[i].inputs[k]
        IN /\ c \in DOMAIN Idx
           /\ Idx[c] >= table.base
           /\ Idx[c] < table.base + i - 1

\* C2 as stated: one Row per entry, a placeholder for each failed entry, and
\* every entry's Row is the one it would have had if no entry had failed.
C2_FailureIsolation ==
    Ran =>
        /\ OnePerEntry
        /\ \A i \in Entries :
              DerivedRow(i) = AdditionalRow(Healed(i), Idx, ADDITIONAL_ROWS[i])

\* C2 amended: one Row per entry, a placeholder for each failed entry, and
\* every entry none of whose inputs is at the position of a Row appended
\* earlier in the same call gets the Row computed from the base rows alone,
\* whatever happened to the other entries.
C2_IsolationFromBaseRows ==
    Ran =>
        /\ OnePerEntry
        /\ \A i \in Entries :
              ~ReadsDerived(i) =>
                  DerivedRow(i) = AdditionalRow(BaseRows, Idx, ADDITIONAL_ROWS[i])

\* the script's run on the sample statement with a zero current_liability:
\* Current Ratio fails, the two other entries are computed
C2_Witness ==
    /\ Ran
    /\ table.script
    /\ table.base = 16
    /\ table.errors[1] = "ZeroDivisionError"
    /\ IsPlaceholder(DerivedRow(1))
    /\ table.errors[2] = "" /\ table.errors[3] = ""
    /\ DerivedRow(2).current_year = Rat(110, 150)
    /\ ~ReadsDerived(2) /\ ~ReadsDerived(3)

\* the formulas of the registry, as the specification tabulates them
Expected(i, v) ==
    IF i = 3 THEN RQuot(v[1], RAdd(v[2], v[3])) ELSE RQuot(v[1], v[2])

Divisor(i, v) == IF i = 3 THEN RAdd(v[2], v[3]) ELSE v[2]

InputRows(i) ==
    [k \in 1..Len(ADDITIONAL_ROWS[i].inputs) |->
        get_row_by_name(RowsBefore(i), Idx, ADDITIONAL_ROWS[i].inputs[k])]

\* C6: when all inputs of a registry entry resolve to Rows with numeric
\* fields and neither period's divisor is zero, the derived Row's
\* current_year is the formula of the current_year fields of the inputs in
\* declared order, and its last_year the formula of their last_year fields.
C6_DerivedValues ==
    Ran =>
        \A i \in Entries :
            LET ins == InputRows(i)
                cur == [k \in DOMAIN ins |-> ins[k].row.current_year]
                last == [k \in DOMAIN ins |-> ins[k].row.last_year]
            IN (/\ \A k \in DOMAIN ins :
                      ins[k].exc = "" /\ IsNum(cur[k]) /\ IsNum(last[k])
                /\ ~RIsZero(Divisor(i, cur))
                /\ ~RIsZero(Divisor(i, last)))
               => /\ ~Failed(i)
                  /\ DerivedRow(i).name = ADDITIONAL_ROWS[i].name
                  /\ DerivedRow(i).current_year = Expected(i, cur)
                  /\ DerivedRow(i).last_year = Expected(i, last)

\* the sample statement: current_asset (500, 400) at position 7 and
\* current_liability (250, 200) at position 10 give Current Ratio (2, 2)
C6_Witness ==
    /\ Ran
    /\ table.base = 16
    /\ table.rows[8].current_year = Int2(500) /\ table.rows[8].last_year = Int2(400)
    /\ table.rows[11].current_year = Int2(250) /\ table.rows[11].last_year = Int2(200)
    /\ DerivedRow(1).name = "Current Ratio"
    /\ DerivedRow(1).current_year = Int2(2)
    /\ DerivedRow(1).last_year = Int2(2)
    /\ DerivedRow(1).difference = Int2(0)
    /\ DerivedRow(1).ratio = Int2(0)
    /\ DerivedRow(3).current_year = Rat(40, 190)
    /\ DerivedRow(3).last_year = Rat(30, 170)

\* C7: get_row_by_name returns rows[index[name]] for a name indexed at a
\* valid position, fails with KeyError for a name absent from the index or
\* a derived-metric key looked up before generate_additional_rows has run,
\* and with IndexError for a position past the end of rows.
C7_Resolve ==
    lookup.called =>
        LET early == lookup.name \in DerivedKeys /\ table.runs = 0
        IN /\ lookup.name \notin DOMAIN Idx => lookup.exc = "KeyError"
           /\ early => lookup.exc = "KeyError"
           /\ lookup.name \in DOMAIN Idx /\ ~early =>
                 IF Idx[lookup.name] >= Len(table.rows)
                 THEN lookup.exc = "IndexError"
                 ELSE /\ lookup.exc = ""
                      /\ lookup.row = table.rows[Idx[lookup.name] + 1]

\* C10: generate_additional_rows leaves the module-level default index as it
\* was written, and a Table constructed with the default index has no
\* derived-metric position until its own generate_additional_rows has run.
C10_RunIsolation ==
    /\ DEFAULT_COLUMN_ROW_INDEX = DefaultIndexLiteral
    /\ table.exists /\ table.aliased /\ table.runs = 0 =>
          \A k \in DerivedKeys : Idx[k] = NoneIdx

\* the leaves of a section tree, in the order generate visits them
RECURSIVE Leaves(_)
Leaves(structure_dict) ==
    IF Len(structure_dict) = 0 THEN <<>>
    ELSE (IF Head(structure_dict).column # "" THEN <<Head(structure_dict)>>
          ELSE Leaves(Head(structure_dict).sub))
         \o Leaves(Tail(structure_dict))

AllLeaves == Leaves(TXT_SECTION_NAME_TO_COLUMN_NAME)

IsParagraph(line) == line.kind = "paragraph"

Paragraphs == SelectSeq(report.out, IsParagraph)

\* the Row the leaf labelled section resolves to
LeafRow(section) ==
    LET leaf == CHOOSE l \in {AllLeaves[k] : k \in DOMAIN AllLeaves} :
                    l.label = section
    IN get_row_by_name(table.rows, Idx, leaf.column)

\* C8: in what generate wrote, the paragraph of a leaf, at any depth, is
\* followed at once by the flag line exactly when the ratio of the Row the
\* leaf resolves to exceeds 1; a flag line follows nothing but such a
\* paragraph.  Paragraphs come one per leaf, in the order of the tree.
C8_FlagIffRatioAboveOne ==
    report.called =>
        /\ Len(Paragraphs) <= Len(AllLeaves)
        /\ \A k \in 1..Len(Paragraphs) : Paragraphs[k].section = AllLeaves[k].label
        /\ \A k \in 1..Len(report.out) :
              LET line == report.out[k]
                  flagged == k < Len(report.out) /\ report.out[k + 1].kind = "flag"
              IN /\ line.kind = "paragraph" =>
                      /\ LeafRow(line.section).exc = ""
                      /\ flagged <=>
                            (/\ IsNum(LeafRow(line.section).row.ratio)
                             /\ RGreater(LeafRow(line.section).row.ratio, Int2(1)))
                 /\ line.kind = "flag" =>
                      /\ k > 1
                      /\ report.out[k - 1].kind = "paragraph"
                      /\ report.out[k - 1].section = line.section
                 /\ line.kind = "header" => ~flagged

\* the nested leaf Assets with ratio 1.5 is flagged, the leaf Profit with
\* ratio 0.2 is not
C8_Witness ==
    /\ report.called
    /\ \E k \in 2..Len(report.out) :
          /\ report.out[k].kind = "flag"
          /\ report.out[k].section = "Assets"
          /\ report.out[k - 1].ratio = [style |-> "percent", h |-> 15000]
          /\ LeafRow("Assets").row.ratio = Rat(3, 2)
    /\ \E k \in 1..(Len(report.out) - 1) :
          /\ report.out[k].kind = "paragraph"
          /\ report.out[k].section = "Profit"
          /\ report.out[k].ratio = [style |-> "percent", h |-> 2000]
          /\ report.out[k + 1].kind = "header"

\* C9: when generate runs after generate_additional_rows and every leaf
\* concept resolves, it completes with one paragraph per leaf in tree order,
\* and a leaf whose Row has no ratio gets its paragraph with the ratio
\* rendered as the empty marker.
C9_NarrativeCompletes ==
    (/\ report.called
     /\ Ran
     /\ \A k \in DOMAIN AllLeaves :
           get_row_by_name(table.rows, Idx, AllLeaves[k].column).exc = "")
    => /\ report.exc = ""
       /\ Len(Paragraphs) = Len(AllLeaves)
       /\ \A k \in 1..Len(Paragraphs) :
             /\ Paragraphs[k].section = AllLeaves[k].label
             /\ LeafRow(Paragraphs[k].section).row.ratio = None =>
                   Paragraphs[k].ratio = EmptyText

====
